---- MODULE Spec2Model ----
(***************************************************************************)
(* The scheduling daemon of auto.py: the control loop run_loop, the        *)
(* Schedule heap, the reload / terminate signal handlers, the worker       *)
(* processes started by _run_module, the lock taken by _can_lock, the      *)
(* reaper _filter_finished_children and the shutdown drain _on_shutdown.   *)
(*                                                                         *)
(* Time is an integer clock that counts minutes, the unit of the cron      *)
(* patterns and of the log file names.  The sleep margin of run_loop       *)
(* (0.1 s) is one clock unit, the least time the clock shows to pass, so   *)
(* that a sleep that ran to its end is followed by a later clock value.    *)
(* A signal handler of the parent runs between two steps of the control    *)
(* loop, as CPython runs handlers between two bytecodes of the main        *)
(* thread.                                                                 *)
(***************************************************************************)
EXTENDS Integers, Sequences, FiniteSets, TLC

\* ---------------------------------------------------------------- bounds
MaxTime == 4        \* the clock stops advancing here
MaxWorkers == 2     \* workers spawned over the daemon's life
MaxReloads == 1     \* reload signals handled after startup

\* ------------------------------------------------------ program constants
IdleSleep == 500    \* time.sleep(500)
SleepMargin == 1    \* the + 0.1 of sleep_seconds, one clock unit

\* ------------------------------------------------------------- job names
\* A name is a sequence of character codes.
NameA == <<97>>          \* "a"
NameB == <<98>>          \* "b"

isalnum(c) == (c \in 48..57) \/ (c \in 65..90) \/ (c \in 97..122)

\* "".join([x if x.isalnum() else "-" for x in filename])
_sanitize_for_filename(filename) ==
    [i \in 1..Len(filename) |-> IF isalnum(filename[i]) THEN filename[i] ELSE 45]

\* Lexicographic order of two names (Python's str <).
RECURSIVE NameLess(_, _)
NameLess(a, b) ==
    IF b = <<>> THEN FALSE
    ELSE IF a = <<>> THEN TRUE
    ELSE IF Head(a) /= Head(b) THEN Head(a) < Head(b)
    ELSE NameLess(Tail(a), Tail(b))

\* ------------------------------------------------------- configurations
\* What load_config() can return: a base directory and the rules, each a
\* name and a cron pattern (here its period: "* * * * *" is 1, "*/2 * * * *"
\* is 2).
Rule(n, p) == [name |-> n, cron_pattern |-> p]

Configs ==
    { [directory |-> <<"d1">>, rules |-> <<>>],
      [directory |-> <<"d1">>, rules |-> <<Rule(NameA, 1)>>],
      [directory |-> <<"d2">>, rules |-> <<Rule(NameA, 1), Rule(NameB, 2)>>] }

\* os.path.join(a, b)
path_join(a, b) == a \o <<b>>

\* croniter(pattern, start_time=base).get_next(): the first occurrence
\* strictly after base.
croniter_get_next(cron_pattern, base_date) ==
    ((base_date \div cron_pattern) + 1) * cron_pattern

VARIABLES
    clock,            \* the wall clock, what time.time() returns
    orderable,        \* the build: whether two job objects can be compared with <
    pc,               \* the control loop's position in run_loop
    are_exiting,      \* o.are_exiting
    schedule,         \* o.schedule: NoSchedule, or the heap list of the Schedule
    base_directory,   \* o.base_directory
    log_directory,    \* o.log_directory
    lock_directory,   \* o.lock_directory
    now,              \* run_loop's local now
    scheduled_time,   \* run_loop's local scheduled_time
    scheduled_item,   \* run_loop's local scheduled_item
    wake,             \* the clock value at which the current time.sleep returns
    running_children, \* run_loop's local running_children (indices of procs)
    procs,            \* every worker process started, in spawn order
    joining,          \* _on_shutdown's all_children still to join
    reloads,          \* reload signals handled so far
    loaded,           \* the rules load_config() returned last
    error,            \* the exception that ended run_loop, if one did
    reported          \* per worker, the calls of _on_child_finish that found it finished

vars == <<clock, orderable, pc, are_exiting, schedule, base_directory,
          log_directory, lock_directory, now, scheduled_time, scheduled_item,
          wake, running_children, procs, joining, reloads, loaded, error,
          reported>>

\* None for a directory, a local or the schedule not yet assigned.
NoDir == <<>>
NoItem == [name |-> <<>>, cron_pattern |-> 0, addr |-> 0]
NoSchedule == <<[t |-> -1, item |-> NoItem]>>
NoTime == -1

\* ------------------------------------------------------------ the heap
\* heapq keeps a list of tuples (next_trigger, item).  Two tuples are
\* compared first by time; on equal times the items themselves are
\* compared: by identity where objects are orderable (Python 2), and with
\* a TypeError where they are not (Python 3).
Raises(x, y) == ~orderable /\ x.t = y.t /\ x.item /= y.item

TupleLess(x, y) ==
    IF x.t /= y.t THEN x.t < y.t
    ELSE IF x.item = y.item THEN FALSE
    ELSE x.item.addr < y.item.addr

Fail == [ok |-> FALSE, heap |-> <<>>]
Ok(h) == [ok |-> TRUE, heap |-> h]

\* heapq._siftdown(heap, startpos, pos), positions counted from 1.
RECURSIVE _siftdown(_, _, _, _)
_siftdown(heap, startpos, pos, newitem) ==
    IF pos > startpos
    THEN LET parentpos == pos \div 2
             parent == heap[parentpos]
         IN  IF Raises(newitem, parent) THEN Fail
             ELSE IF TupleLess(newitem, parent)
                  THEN _siftdown([heap EXCEPT ![pos] = parent], startpos, parentpos, newitem)
                  ELSE Ok([heap EXCEPT ![pos] = newitem])
    ELSE Ok([heap EXCEPT ![pos] = newitem])

\* heapq._siftup(heap, pos): bubble the smaller child up to a leaf, then
\* sift the displaced item down from there.
RECURSIVE _siftup(_, _, _, _)
_siftup(heap, startpos, pos, newitem) ==
    LET childpos == 2 * pos
        rightpos == childpos + 1
    IN  IF childpos <= Len(heap)
        THEN IF rightpos <= Len(heap) /\ Raises(heap[childpos], heap[rightpos])
             THEN Fail
             ELSE LET c == IF rightpos <= Len(heap)
                              /\ ~TupleLess(heap[childpos], heap[rightpos])
                           THEN rightpos ELSE childpos
                  IN  _siftup([heap EXCEPT ![pos] = heap[c]], startpos, c, newitem)
        ELSE _siftdown(heap, startpos, pos, newitem)

\* heapq.heappush(heap, entry)
heappush(heap, entry) ==
    _siftdown(Append(heap, entry), 1, Len(heap) + 1, entry)

\* heapq.heappop(heap) on a non-empty heap: the entry returned and the
\* heap left.
heappop(heap) ==
    LET lastelt == heap[Len(heap)]
        rest == SubSeq(heap, 1, Len(heap) - 1)
    IN  IF rest = <<>>
        THEN [ok |-> TRUE, item |-> lastelt, heap |-> rest]
        ELSE LET r == _siftup([rest EXCEPT ![1] = lastelt], 1, 1, lastelt)
             IN  [ok |-> r.ok, item |-> heap[1], heap |-> r.heap]

\* Schedule.add_item(item, base_date): the heap after the push.
add_item(heap, item, base_date) ==
    heappush(heap, [t |-> croniter_get_next(item.cron_pattern, base_date), item |-> item])

\* Schedule.__init__(items): add_item for each item, all from the same now.
RECURSIVE ScheduleInit(_, _, _)
ScheduleInit(heap, items, base) ==
    IF items = <<>> THEN Ok(heap)
    ELSE LET r == add_item(heap, Head(items), base)
         IN  IF r.ok THEN ScheduleInit(r.heap, Tail(items), base) ELSE Fail

\* `not o.schedule`: a Schedule defines neither __len__ nor __bool__, so
\* the object is true whatever its list holds; only None is false.
Truthy(s) == s /= NoSchedule

\* ------------------------------------------------------------ workers
\* time.strftime of the local time of a trigger: the day directory
\* ('%Y', '%m-%d') and the '%H%M' of the file name.  The clock counts
\* minutes.
MinutesPerDay == 1440
strftime_day(t) == t \div MinutesPerDay
strftime_HHMM(t) == t % MinutesPerDay

\* get_day_log_dir(log_directory, time_secs)
get_day_log_dir(logdir, time_secs) == path_join(logdir, strftime_day(time_secs))

\* The files _run_module derives for a run.
LockFile(lockdir, name) == path_join(lockdir, <<_sanitize_for_filename(name), "lck">>)
LogFile(daydir, name, t) ==
    path_join(daydir, <<strftime_HHMM(t), _sanitize_for_filename(name), "log">>)

Workers == 1..Len(procs)
Finished(i) == procs[i].at = "exited"          \* child.exitcode is not None
Alive(i) == ~Finished(i)

\* The lock on file f is held by a live process other than i.
HeldByOther(f, i) ==
    \E j \in Workers : j /= i /\ Alive(j) /\ procs[j].locked /\ procs[j].lock_file = f

\* Mutant: the lock attempt succeeds whoever holds the lock.
_can_lock_blind(i) == TRUE

\* Mutant: the lock stays with a holder that has exited.
_can_lock_stale(i) ==
    ~\E j \in Workers :
        j /= i /\ procs[j].triggered /\ procs[j].lock_file = procs[i].lock_file

\* _can_lock(lock_file) in worker i: lockf(LOCK_EX | LOCK_NB) succeeds
\* unless another process holds the lock; it never waits.
_can_lock(i) == ~HeldByOther(procs[i].lock_file, i)

\* What trigger() can end with: it returns (0), raises (1), or the worker
\* is killed (-9).
ExitCodes == {0, 1, -9}

\* Mutant: a worker turned away exits with a failure status.
SkipStatusFailure == 0 + 1

\* sys.exit(0) of a worker that did not get the lock.
SkipStatus == 0

\* The handlers a process has for the terminate and reload signals.
\* multiprocessing forks the worker from the parent, so it starts with
\* the handlers the parent installed at line 337; _init_signals() at line
\* 112 puts the default dispositions in their place.
ParentHandlers == {"trigger_exit", "trigger_reload"}

\* _run_proc up to the call of trigger(): the output is redirected, then
\* with the lock the worker goes on to set its title, to _init_signals()
\* and to trigger(), and without it to sys.exit(0).  What an inherited
\* handler did to the worker's copy of o is not read again and is
\* forgotten.
WorkerStart(i) ==
    /\ procs[i].at = "start"
    /\ procs' = IF _can_lock(i)
                THEN [procs EXCEPT ![i].at = "trigger", ![i].locked = TRUE,
                                   ![i].triggered = TRUE, ![i].handled = {}]
                ELSE [procs EXCEPT ![i].at = "exited", ![i].exitcode = SkipStatus,
                                   ![i].handled = {}]
    /\ UNCHANGED <<clock, orderable, pc, are_exiting, schedule, base_directory,
                   log_directory, lock_directory, now, scheduled_time,
                   scheduled_item, wake, running_children, joining, reloads,
                   loaded, error, reported>>

\* A terminate or reload signal is delivered to worker i before its call
\* of _init_signals(): the handler inherited from the parent runs inside
\* the worker, trigger_exit setting are_exiting and trigger_reload
\* reloading the configuration in the worker's copy of o.  From
\* _init_signals() on the signal ends the worker (WorkerExit).
WorkerSignal(i) ==
    /\ procs[i].at = "start"
    /\ \E h \in ParentHandlers \ procs[i].handled :
         procs' = [procs EXCEPT ![i].handled = @ \cup {h}]
    /\ UNCHANGED <<clock, orderable, pc, are_exiting, schedule, base_directory,
                   log_directory, lock_directory, now, scheduled_time,
                   scheduled_item, wake, running_children, joining, reloads,
                   loaded, error, reported>>

\* trigger() ends and the worker process with it; the kernel drops the
\* locks of a process that exits.
WorkerExit(i) ==
    /\ procs[i].at = "trigger"
    /\ \E code \in ExitCodes :
         procs' = [procs EXCEPT ![i].at = "exited", ![i].exitcode = code,
                                ![i].locked = FALSE]
    /\ UNCHANGED <<clock, orderable, pc, are_exiting, schedule, base_directory,
                   log_directory, lock_directory, now, scheduled_time,
                   scheduled_item, wake, running_children, joining, reloads,
                   loaded, error, reported>>

\* ------------------------------------------------------------ reaping
\* _on_child_finish(child) for each finished child of `done`: one report
\* of its completion; with it goes an error report when the exit code is
\* not 0.
ReportAll(done) ==
    reported' = [i \in DOMAIN reported |-> IF i \in done THEN reported[i] + 1
                                             ELSE reported[i]]

\* _log.error('Error return code ...') has been called for worker i.
ErrorLogged(i) == reported[i] > 0 /\ procs[i].exitcode /= 0

\* Mutant: the reaper keeps every child it was given.
_filter_finished_children_all(children) == children

\* _filter_finished_children(running_children): the children kept.
_filter_finished_children(children) == {i \in children : ~Finished(i)}

\* multiprocessing.active_children()
active_children == {i \in Workers : Alive(i)}

\* ------------------------------------------------------ configuration
\* The ScheduledItem objects a load creates: one per rule, each a new
\* object.  The identity of an object is kept as its rank among the items
\* alive after the load: the new ones and the one run_loop's local
\* scheduled_item still refers to (the old schedule is dropped).  g[i] is
\* the rank of the i-th new item and g[n + 1] the rank of the local's.
\* Where objects are orderable (by address) every order is possible;
\* where they are not, the order is never read.
ItemsOf(rules, g) ==
    [i \in 1..Len(rules) |->
        [name |-> rules[i].name, cron_pattern |-> rules[i].cron_pattern, addr |-> g[i]]]

Identities(rules) ==
    LET n == Len(rules)
        m == IF scheduled_item = NoItem THEN n ELSE n + 1
    IN  IF orderable
        THEN {g \in [1..m -> 1..m] : \A i, j \in 1..m : i /= j => g[i] /= g[j]}
        ELSE {[i \in 1..m |-> i]}

\* The local's item under the ranks g.
Kept(rules, g) ==
    IF scheduled_item = NoItem THEN NoItem
    ELSE [scheduled_item EXCEPT !.addr = g[Len(rules) + 1]]

\* Where the loop goes on after a handler that was run in time.sleep
\* returns: the sleep ends early (EINTR) or goes on for the rest of its
\* time (PEP 475).  Anywhere else the loop goes on where it was.
Resume == IF pc = "sleeping" THEN {"sleeping", "loop"} ELSE {pc}

\* Mutant: every reload derives the lock directory from its base directory.
reload_lock_directory_live(c) == path_join(c.directory, "lock")

\* Lines 301-304: the lock directory is derived from the base directory
\* only while o has none ("Cannot change lock directory 'live'").
reload_lock_directory(c) ==
    IF lock_directory = NoDir THEN path_join(c.directory, "lock") ELSE lock_directory

\* RunConfig.reload() with load_config() returning c, and the loop going
\* on at one of `resume`.  A TypeError of a heap push leaves o as it was
\* and is raised in run_loop, where nothing catches it.
reload(c, f, resume) ==
    LET r == ScheduleInit(<<>>, ItemsOf(c.rules, f), clock)
    IN  IF ~r.ok
        THEN /\ error' = "TypeError"
             /\ pc' = "crashed"
             /\ UNCHANGED <<schedule, base_directory, lock_directory, log_directory,
                            scheduled_item>>
        ELSE /\ schedule' = r.heap
             /\ scheduled_item' = Kept(c.rules, f)
             /\ base_directory' = c.directory
             /\ lock_directory' = reload_lock_directory(c)
             /\ log_directory' = path_join(c.directory, "log")
             /\ pc' \in resume
             /\ UNCHANGED error

\* load_config() raises: o is as it was and run_loop ends with the
\* exception.
load_fails ==
    /\ error' = "ConfigError"
    /\ pc' = "crashed"
    /\ UNCHANGED <<schedule, base_directory, lock_directory, log_directory, loaded,
                   scheduled_item>>

\* run_loop up to its while loop: the first _reload_config(), then the
\* handlers are installed.
Startup ==
    /\ pc = "start"
    /\ \/ load_fails
       \/ \E c \in Configs : \E f \in Identities(c.rules) :
            /\ loaded' = c.rules
            /\ reload(c, f, {"loop"})
    /\ UNCHANGED <<clock, orderable, are_exiting, now, scheduled_time, wake,
                   running_children, procs, joining, reloads, reported>>

\* Where a handler of the parent can run: between two steps of the loop,
\* in a sleep, and in a join of the shutdown.
Handling == pc \in {"loop", "now", "peek", "pop", "spawn", "add", "sleeping", "join"}

\* trigger_exit(signal_, frame_)
trigger_exit ==
    /\ Handling
    /\ are_exiting' = TRUE
    /\ pc' \in Resume
    /\ UNCHANGED <<clock, orderable, schedule, base_directory, log_directory,
                   lock_directory, now, scheduled_time, scheduled_item, wake,
                   running_children, procs, joining, reloads, loaded, error,
                   reported>>

\* trigger_reload(signal_, frame_): _reload_config().
trigger_reload ==
    /\ Handling
    /\ reloads < MaxReloads
    /\ reloads' = reloads + 1
    /\ \/ load_fails
       \/ \E c \in Configs : \E f \in Identities(c.rules) :
            /\ loaded' = c.rules
            /\ reload(c, f, Resume)
    /\ UNCHANGED <<clock, orderable, are_exiting, now, scheduled_time, wake,
                   running_children, procs, joining, reported>>

\* ---------------------------------------------------- the control loop
\* Time passes; the clock is read by the running parent only.
Tick ==
    /\ Handling
    /\ clock < MaxTime
    /\ clock' = clock + 1
    /\ UNCHANGED <<orderable, pc, are_exiting, schedule, base_directory,
                   log_directory, lock_directory, now, scheduled_time,
                   scheduled_item, wake, running_children, procs, joining,
                   reloads, loaded, error, reported>>

\* Mutant: the loop goes on whatever are_exiting is.
LoopCondition_always == TRUE

\* The condition of the while loop: not o.are_exiting
LoopCondition == ~are_exiting

\* Mutant: an entry is due from the instant of its trigger time on.
IsDue_or_equal(t, n) == t <= n

\* The test of line 360: scheduled_time < now
IsDue(t, n) == t < n

\* Lines 343-354: the test of the while loop, with the call of
\* _on_shutdown when it fails; the reaper; the test of o.schedule.  The
\* locals of the iteration before are not read again and are forgotten.
LoopTop ==
    /\ pc = "loop"
    /\ IF ~LoopCondition
       THEN /\ joining' = running_children \cup active_children
            /\ pc' = "join"
            /\ wake' = NoTime
            /\ UNCHANGED <<running_children, reported>>
       ELSE /\ running_children' = _filter_finished_children(running_children)
            /\ ReportAll(running_children \ _filter_finished_children(running_children))
            /\ IF ~Truthy(schedule)
               THEN /\ wake' = clock + IdleSleep
                    /\ pc' = "sleeping"
               ELSE /\ pc' = "now"
                    /\ wake' = NoTime
            /\ UNCHANGED joining
    /\ now' = NoTime
    /\ scheduled_time' = NoTime
    /\ scheduled_item' = NoItem
    /\ UNCHANGED <<clock, orderable, are_exiting, schedule, base_directory,
                   log_directory, lock_directory, procs, reloads, loaded, error>>

\* Line 356: now = time.time()
ReadNow ==
    /\ pc = "now"
    /\ now' = clock
    /\ pc' = "peek"
    /\ UNCHANGED <<clock, orderable, are_exiting, schedule, base_directory,
                   log_directory, lock_directory, scheduled_time, scheduled_item,
                   wake, running_children, procs, joining, reloads, loaded,
                   error, reported>>

\* Lines 358-360 and 380-384: peek_next(), which is self.schedule[0] and
\* raises IndexError on an empty list; then the comparison with now, and
\* on its else branch the call of time.sleep.
PeekNext ==
    /\ pc = "peek"
    /\ IF schedule = <<>>
       THEN /\ error' = "IndexError"
            /\ pc' = "crashed"
            /\ UNCHANGED <<scheduled_time, scheduled_item, wake>>
       ELSE /\ scheduled_time' = schedule[1].t
            /\ scheduled_item' = schedule[1].item
            /\ IF IsDue(schedule[1].t, now)
               THEN /\ pc' = "pop"
                    /\ UNCHANGED wake
               ELSE /\ wake' = clock + (schedule[1].t - now) + SleepMargin
                    /\ pc' = "sleeping"
            /\ UNCHANGED error
    /\ UNCHANGED <<clock, orderable, are_exiting, schedule, base_directory,
                   log_directory, lock_directory, now, running_children, procs,
                   joining, reloads, loaded, reported>>

\* time.sleep returns when its time is over.
Wake ==
    /\ pc = "sleeping"
    /\ clock >= wake
    /\ pc' = "loop"
    /\ UNCHANGED <<clock, orderable, are_exiting, schedule, base_directory,
                   log_directory, lock_directory, now, scheduled_time,
                   scheduled_item, wake, running_children, procs, joining,
                   reloads, loaded, error, reported>>

\* Line 363: pop_next() on the schedule o refers to now; heappop raises
\* IndexError on an empty list.
PopNext ==
    /\ pc = "pop"
    /\ IF schedule = <<>>
       THEN /\ error' = "IndexError"
            /\ pc' = "crashed"
            /\ UNCHANGED <<schedule, scheduled_time, scheduled_item>>
       ELSE LET r == heappop(schedule)
            IN  IF ~r.ok
                THEN /\ error' = "TypeError"
                     /\ pc' = "crashed"
                     /\ UNCHANGED <<schedule, scheduled_time, scheduled_item>>
                ELSE /\ schedule' = r.heap
                     /\ scheduled_time' = r.item.t
                     /\ scheduled_item' = r.item.item
                     /\ pc' = "spawn"
                     /\ UNCHANGED error
    /\ UNCHANGED <<clock, orderable, are_exiting, base_directory, log_directory,
                   lock_directory, now, wake, running_children, procs, joining,
                   reloads, loaded, reported>>

\* _run_module(reporter, name, module, scheduled_time, log_directory,
\* lock_directory): the process it starts, about to run _run_proc.  The
\* fields now and late record the iteration that started it, and handled
\* the handlers of the parent that have run inside the worker.
_run_module(name, t, logdir, lockdir) ==
    [name |-> name,
     scheduled_time |-> t,
     log_file |-> LogFile(logdir, name, t),
     lock_file |-> LockFile(lockdir, name),
     at |-> "start",
     exitcode |-> 0,
     locked |-> FALSE,
     triggered |-> FALSE,
     now |-> now,
     late |-> are_exiting,
     handled |-> {}]

\* Lines 365-374: the worker is started with the log and lock directories
\* o holds at the call, and is added to running_children.
Spawn ==
    /\ pc = "spawn"
    /\ Len(procs) < MaxWorkers
    /\ procs' = Append(procs, _run_module(scheduled_item.name, scheduled_time,
                                          get_day_log_dir(log_directory, scheduled_time),
                                          lock_directory))
    /\ reported' = Append(reported, 0)
    /\ running_children' = running_children \cup {Len(procs) + 1}
    /\ pc' = "add"
    /\ UNCHANGED <<clock, orderable, are_exiting, schedule, base_directory,
                   log_directory, lock_directory, now, scheduled_time,
                   scheduled_item, wake, joining, reloads, loaded, error>>

\* Lines 377-379: o.schedule.add_item(scheduled_item, base_date=now), on
\* the schedule o refers to now.
AddItem ==
    /\ pc = "add"
    /\ LET r == add_item(schedule, scheduled_item, now)
       IN  IF ~r.ok
           THEN /\ error' = "TypeError"
                /\ pc' = "crashed"
                /\ UNCHANGED schedule
           ELSE /\ schedule' = r.heap
                /\ pc' = "loop"
                /\ UNCHANGED error
    /\ UNCHANGED <<clock, orderable, are_exiting, base_directory, log_directory,
                   lock_directory, now, scheduled_time, scheduled_item, wake,
                   running_children, procs, joining, reloads, loaded, reported>>

\* _on_shutdown: p.join() returns once p has finished, and then
\* _on_child_finish(p) reports it.
Join ==
    /\ pc = "join"
    /\ \E i \in joining :
         /\ Finished(i)
         /\ ReportAll({i})
         /\ joining' = joining \ {i}
    /\ UNCHANGED <<clock, orderable, pc, are_exiting, schedule, base_directory,
                   log_directory, lock_directory, now, scheduled_time,
                   scheduled_item, wake, running_children, procs, reloads,
                   loaded, error>>

\* _on_shutdown and run_loop return: the process exits.
Return ==
    /\ pc = "join"
    /\ joining = {}
    /\ pc' = "exited"
    /\ UNCHANGED <<clock, orderable, are_exiting, schedule, base_directory,
                   log_directory, lock_directory, now, scheduled_time,
                   scheduled_item, wake, running_children, procs, joining,
                   reloads, loaded, error, reported>>

\* After an uncaught exception the interpreter exits through
\* multiprocessing's exit function, which joins the children still alive
\* and reports nothing.
ExitAfterError ==
    /\ pc = "crashed"
    /\ active_children = {}
    /\ pc' = "exited"
    /\ UNCHANGED <<clock, orderable, are_exiting, schedule, base_directory,
                   log_directory, lock_directory, now, scheduled_time,
                   scheduled_item, wake, running_children, procs, joining,
                   reloads, loaded, error, reported>>

\* ------------------------------------------------------ specification
\* RunConfig() constructed, nothing loaded yet.
Init ==
    /\ clock = 0
    /\ orderable \in BOOLEAN
    /\ pc = "start"
    /\ are_exiting = FALSE
    /\ schedule = NoSchedule
    /\ base_directory = NoDir
    /\ log_directory = NoDir
    /\ lock_directory = NoDir
    /\ now = NoTime
    /\ scheduled_time = NoTime
    /\ scheduled_item = NoItem
    /\ wake = NoTime
    /\ running_children = {}
    /\ procs = <<>>
    /\ joining = {}
    /\ reloads = 0
    /\ loaded = <<>>
    /\ error = "none"
    /\ reported = <<>>

Next ==
    \/ Startup
    \/ Tick
    \/ trigger_exit
    \/ trigger_reload
    \/ LoopTop
    \/ ReadNow
    \/ PeekNext
    \/ Wake
    \/ PopNext
    \/ Spawn
    \/ AddItem
    \/ Join
    \/ Return
    \/ ExitAfterError
    \/ \E i \in Workers : WorkerStart(i)
    \/ \E i \in Workers : WorkerSignal(i)
    \/ \E i \in Workers : WorkerExit(i)

Spec == Init /\ [][Next]_vars

\* ------------------------------------------------------------- claims
\* C1: of the workers started for one job name at most one at a time is
\* in trigger(), at most one at a time holds the job's lock, and a worker
\* in trigger() holds the lock it took itself.
C1_OneTriggerPerJob ==
    /\ \A i, j \in Workers :
         (i /= j /\ procs[i].name = procs[j].name)
            => /\ ~(procs[i].at = "trigger" /\ procs[j].at = "trigger")
               /\ ~(procs[i].locked /\ procs[j].locked)
               /\ procs[i].lock_file = procs[j].lock_file
    /\ \A i \in Workers : procs[i].at = "trigger" => procs[i].locked

\* A worker is in trigger() while a later worker of the same job has
\* been turned away.
C1_Witness ==
    \E i, j \in Workers :
        /\ i /= j /\ procs[i].name = procs[j].name
        /\ procs[i].at = "trigger"
        /\ Finished(j) /\ ~procs[j].triggered

\* C6: a worker that finds its job's lock held by another live process
\* exits with status 0 without calling trigger(), and the parent never
\* logs an error for a worker that ended this way.
C6_SkipIsSuccess ==
    /\ [][\A i \in Workers :
            (/\ procs[i].at = "start"
             /\ procs'[i].at /= "start"
             /\ HeldByOther(procs[i].lock_file, i))
               => /\ procs'[i].at = "exited"
                  /\ procs'[i].exitcode = 0
                  /\ ~procs'[i].triggered]_vars
    /\ [](\A i \in Workers :
            (Finished(i) /\ ~procs[i].triggered)
               => (procs[i].exitcode = 0 /\ ~ErrorLogged(i)))

\* A worker turned away by a lock another worker held has been reported
\* by the parent.
C6_Witness ==
    \E i \in Workers :
        /\ Finished(i) /\ ~procs[i].triggered
        /\ reported[i] > 0
        /\ \E j \in Workers : j /= i /\ procs[j].lock_file = procs[i].lock_file
                                      /\ procs[j].triggered

\* C7: the lock attempt never waits; it succeeds exactly when no other
\* live process holds the job's lock, so it fails while a holder lives
\* and succeeds again once the holder has exited, whatever its exit
\* status; a worker keeps its lock until it exits.
C7_TryAcquire ==
    /\ [](\A i \in Workers : procs[i].at = "start" => ENABLED WorkerStart(i))
    /\ [][\A i \in Workers :
            /\ (procs[i].at = "start" /\ procs'[i].at /= "start")
                  => (procs'[i].locked <=> ~HeldByOther(procs[i].lock_file, i))
            /\ (procs[i].locked /\ ~procs'[i].locked) => procs'[i].at = "exited"]_vars
    /\ [](\A i \in Workers : Finished(i) => ~procs[i].locked)

\* After a holder was killed, the next worker of the job holds the lock.
C7_Witness ==
    \E i, j \in Workers :
        /\ i /= j /\ procs[i].lock_file = procs[j].lock_file
        /\ Finished(i) /\ procs[i].triggered /\ procs[i].exitcode = -9
        /\ procs[j].locked /\ procs[j].at = "trigger"

\* The job names of the entries of a heap, and of a list of rules.
EntryNames(heap) == [k \in 1..Len(heap) |-> heap[k].item.name]
RuleNames(rules) == [k \in 1..Len(rules) |-> rules[k].name]
Count(seq, x) == Cardinality({k \in 1..Len(seq) : seq[k] = x})

\* C2: at the start of every iteration of the control loop the queue
\* holds exactly one entry for each job of the configuration loaded last
\* and no other entry.
C2_OneEntryPerJob ==
    (pc = "loop" /\ Truthy(schedule))
       => /\ \A k \in 1..Len(loaded) : Count(EntryNames(schedule), loaded[k].name) = 1
          /\ \A k \in 1..Len(schedule) :
                Count(RuleNames(loaded), schedule[k].item.name) = 1

\* C3: an iteration that finds the queue empty goes to sleep for the idle
\* interval; it does not go on to read the clock and peek.
C3_IdleSleep ==
    [][(pc = "loop" /\ ~are_exiting /\ schedule = <<>> /\ pc' /= "loop"
        /\ UNCHANGED <<reloads, are_exiting>>)
          => (pc' = "sleeping" /\ wake' = clock + IdleSleep)]_vars

\* The workers started by an iteration in which are_exiting was already
\* set.
Late == {i \in Workers : procs[i].late}

\* C4 as stated: are_exiting stays true, and no worker is started once
\* it is true.
C4_NoSpawnAfterExit ==
    [][(are_exiting => are_exiting')
       /\ (are_exiting => Len(procs') = Len(procs))]_vars

\* C4 amended: are_exiting stays true; after the handler has set it the
\* loop starts at most one more worker, that of the iteration under way:
\* from the test of its while loop, or from a sleep, the loop goes to the
\* shutdown without another iteration, and nothing is started from there.
C4_AtMostOneLateSpawn ==
    /\ [][/\ are_exiting => are_exiting'
          /\ (are_exiting /\ pc = "loop") => pc' \in {"loop", "join", "crashed"}
          /\ (are_exiting /\ pc = "sleeping") => pc' \in {"sleeping", "loop", "crashed"}
          /\ pc \in {"join", "crashed", "exited"}
                => (pc' \in {"join", "crashed", "exited"} /\ Len(procs') = Len(procs))]_vars
    /\ [](Cardinality(Late) <= 1)

\* A worker was started after the terminate handler ran, and the daemon
\* has shut down since.
C4_Witness == Late /= {} /\ pc = "exited" /\ error = "none"

\* C5: when the daemon process exits after a terminate signal, every
\* worker it started has finished and has been reported.
C5_DrainBeforeExit ==
    (pc = "exited" /\ are_exiting)
       => \A i \in Workers : Finished(i) /\ reported[i] >= 1

\* C8: the trigger times of the workers started are non-decreasing in
\* the order they were started.
C8_NonDecreasingDispatch ==
    \A i, j \in Workers : i < j => procs[i].scheduled_time <= procs[j].scheduled_time

\* C9: of the entries that share the earliest trigger time the pop yields
\* the one whose job name is lexicographically least, and no comparison
\* of job objects fails.
C9_TieByName ==
    /\ [][(pc = "pop" /\ pc' = "spawn")
            => \A k \in 1..Len(schedule) :
                  schedule[k].t = scheduled_time'
                     => ~NameLess(schedule[k].item.name, scheduled_item'.name)]_vars
    /\ [](error /= "TypeError")

C11_RescheduleAfterNow ==
    [][(pc = "add" /\ pc' /= "add" /\ UNCHANGED reloads)
          => /\ pc' = "loop"
             /\ Len(schedule') = Len(schedule) + 1
             /\ \E k \in 1..Len(schedule') :
                  /\ schedule'[k].item = scheduled_item
                  /\ schedule'[k].t = croniter_get_next(scheduled_item.cron_pattern, now)
                  /\ schedule'[k].t > now
                  /\ schedule'[k].t > scheduled_time]_vars

\* C12: the entry an iteration pops is the entry it peeked, and from the
\* pop to the reschedule no handler replaces the queue or the directories
\* the iteration reads.
C12_ReloadAtomic ==
    [][/\ (pc = "pop" /\ pc' = "spawn")
             => /\ scheduled_time' = scheduled_time
                /\ scheduled_item'.name = scheduled_item.name
       /\ (pc \in {"pop", "spawn", "add"} /\ pc' = pc)
             => UNCHANGED <<schedule, base_directory, log_directory>>]_vars

\* C13: a reload after startup whose load fails leaves the control loop
\* running, with the queue and the directories of the configuration
\* before.
C13_FailedReloadKeepsRunning ==
    [][(reloads' /= reloads /\ error' = "ConfigError")
          => /\ pc' /= "crashed"
             /\ UNCHANGED <<schedule, base_directory, log_directory>>]_vars

\* C14: once set, lock_directory never changes; the startup load sets it
\* from its base directory, and every worker's lock file lies in it.
C14_LockDirectoryFixed ==
    /\ [][/\ lock_directory /= NoDir => lock_directory' = lock_directory
          /\ (pc = "start" /\ pc' = "loop")
                => lock_directory' = path_join(base_directory', "lock")]_vars
    /\ [](\A i \in Workers :
             procs[i].lock_file = LockFile(lock_directory, procs[i].name))

\* A worker started after a reload that changed the base directory: its
\* log lies under the new base directory and its lock under the first.
C14_Witness ==
    \E i \in Workers :
        /\ procs[i].log_file[1] = base_directory[1]
        /\ procs[i].lock_file[1] /= base_directory[1]
        /\ reloads > 0

\* C15: the reaper step of an iteration reports every tracked worker
\* that has finished, with an error when its exit code is not 0, drops
\* exactly those from the tracked set and goes on with the iteration:
\* it raises nothing, and leaves the queue and are_exiting alone.  The
\* exit of a worker, whatever its status, changes nothing of the parent.
C15_FailureReportedLoopGoesOn ==
    [][/\ (pc = "loop" /\ ~are_exiting /\ pc' /= "loop" /\ UNCHANGED reloads)
             => /\ pc' \in {"now", "sleeping"}
                /\ UNCHANGED <<error, schedule, are_exiting, procs>>
                /\ running_children' = {i \in running_children : ~Finished(i)}
                /\ \A i \in Workers :
                     reported'[i] = IF i \in running_children /\ Finished(i)
                                    THEN reported[i] + 1 ELSE reported[i]
                /\ \A i \in running_children :
                     (Finished(i) /\ procs[i].exitcode /= 0) => ErrorLogged(i)'
       /\ (\E i \in Workers : ~Finished(i) /\ Finished(i)')
             => UNCHANGED <<pc, error, are_exiting, schedule, running_children,
                            reported>>]_vars

\* After the reaper logged the error of a failed worker and dropped it,
\* the loop has started the next worker of the same job.
C15_Witness ==
    /\ pc = "add" /\ error = "none" /\ Len(procs) = 2
    /\ procs[1].exitcode /= 0 /\ ErrorLogged(1) /\ 1 \notin running_children
    /\ procs[2].name = procs[1].name /\ procs[2].at = "start"
    /\ 2 \in running_children

\* C16: the sleep on an entry not yet due lasts (trigger time - now) plus
\* the margin, and a terminate or reload handler that runs during the
\* sleep ends it: the loop is back at the test of its while loop.
C16_SignalEndsSleep ==
    [][/\ (pc = "peek" /\ pc' = "sleeping" /\ UNCHANGED <<reloads, are_exiting>>)
             => wake' = clock + (schedule[1].t - now) + SleepMargin
       /\ (pc = "sleeping" /\ pc' = "loop" /\ UNCHANGED <<reloads, are_exiting>>)
             => clock >= wake
       /\ (pc = "sleeping" /\ ~are_exiting /\ are_exiting') => pc' = "loop"
       /\ (pc = "sleeping" /\ reloads' /= reloads /\ error' = error) => pc' = "loop"]_vars

\* An entry of the queue whose trigger time has passed.
PastDue == \E k \in 1..Len(schedule) : schedule[k].t < clock

\* C17: with no terminate signal and the queue not replaced by a reload,
\* the loop does not sleep or stop while the queue holds an entry whose
\* trigger time has passed: it goes on to read the clock and peek, and
\* an iteration that peeks an earliest entry with a trigger time before
\* now pops it, starts its worker, reschedules it and is back at the top
\* of the loop.
C17_DueEntryDispatched ==
    [][(reloads = 0 /\ ~are_exiting' /\ (reloads' = 0 \/ error' /= error))
          => /\ (pc = "loop" /\ PastDue) => pc' \in {"loop", "now"}
             /\ (pc = "now" /\ PastDue) => pc' \in {"now", "peek"}
             /\ (pc = "peek" /\ schedule /= <<>> /\ schedule[1].t < now)
                   => pc' \in {"peek", "pop"}
             /\ pc = "pop" => pc' \in {"pop", "spawn"}
             /\ pc = "spawn" => pc' \in {"spawn", "add"}
             /\ pc = "add" => pc' \in {"add", "loop"}]_vars

\* C18: no two workers are given the same log file, and a worker's log
\* file is named by the day and the HHMM of its trigger time and by its
\* sanitized job name.
C18_OwnLogFile ==
    /\ \A i, j \in Workers : i /= j => procs[i].log_file /= procs[j].log_file
    /\ \A i \in Workers :
         /\ procs[i].log_file[3] = strftime_day(procs[i].scheduled_time)
         /\ procs[i].log_file[4][1] = strftime_HHMM(procs[i].scheduled_time)
         /\ procs[i].log_file[4][2] = _sanitize_for_filename(procs[i].name)

\* C20: a worker is tracked from its start until it is reported, no
\* worker is reported twice, and when the daemon process has exited
\* every worker it started has been reported exactly once.
C20_ReportedExactlyOnce ==
    /\ \A i \in Workers : reported[i] <= 1
    /\ \A i \in Workers : reported[i] = 0 => i \in running_children
    /\ pc = "exited" => \A i \in Workers : reported[i] = 1

\* C19: no handler of the parent runs inside a worker: whenever a
\* terminate or reload signal reaches a worker, the worker neither sets
\* are_exiting nor reloads the configuration in its copy of o.
C19_NoParentHandlerInWorker ==
    \A i \in Workers : procs[i].handled = {}

====
